---- MODULE Spec2Model ----
(***************************************************************************)
(* Model of the signalling server in src/main.py: the ConnectionManager    *)
(* registry (active_rooms, client_info) and the per-connection handler      *)
(* websocket_endpoint.  Every handler is an asyncio task: the code between  *)
(* two awaits runs atomically, and every await (accept, receive_json,       *)
(* send_json) is a point where the other handlers may run.  One action of   *)
(* the model is the resumption of a task at an await together with the code *)
(* it runs up to its next await.                                            *)
(*                                                                          *)
(* A room (a Python dict client_id -> websocket) is modelled as CPython      *)
(* keeps it: an insertion-ordered array of entries in which a deleted entry  *)
(* leaves a hole, so that an iteration suspended at a send observes the      *)
(* changes other tasks make (RuntimeError when the size changed).           *)
(***************************************************************************)
EXTENDS Integers, Sequences, FiniteSets, TLC

\* ---------------------------------------------------------------- bounds
NumConns == 3      \* websocket connections (one handler task each)
NumClients == 3    \* distinct client ids used in the URL path
NumRooms == 2      \* distinct room ids
MaxMsgs == 1       \* messages the connections send after their joins, in all

Conns == 1..NumConns
Clients == 1..NumClients
Rooms == 1..NumRooms

\* data.get("room_id", "default"): the room an absent room_id stands for
DefaultRoom == 1
\* the value of an absent field (None)
Absent == 0

VARIABLES
  active_rooms,   \* room_id -> dict (entries in insertion order, with holes)
  client_info,    \* client_id -> [room, name]
  cid,            \* the client_id path parameter of each connection
  pc,             \* where each handler is suspended
  loc,            \* the locals of each handler and of the calls it is in, with
                  \* the history of the fan-out it is in: snap, the sockets of
                  \* the room when it began, and got, the sockets sent to
  closed,         \* the socket is known to carry no more messages
  nmsg,           \* messages received in the Active loops so far
  heard           \* per connection suspended in the fan-out of its join: the
                  \* connections whose user_joined its peer has received

vars == <<active_rooms, client_info, cid, pc, loc, closed, nmsg, heard>>

\* ------------------------------------------------------------- Python dict
\* A hole left by `del d[k]`.
Tomb == [cid |-> Absent, ws |-> Absent]

Live(entries) == {i \in 1..Len(entries) : entries[i] # Tomb}

Size(entries) == Cardinality(Live(entries))

HasKey(entries, c) == \E i \in Live(entries) : entries[i].cid = c

Get(entries, c) == entries[CHOOSE i \in Live(entries) : entries[i].cid = c].ws

\* d[c] = w: an existing key keeps its place, a new key goes last.
Put(entries, c, w) ==
  IF HasKey(entries, c)
  THEN [i \in 1..Len(entries) |->
          IF entries[i].cid = c THEN [cid |-> c, ws |-> w] ELSE entries[i]]
  ELSE Append(entries, [cid |-> c, ws |-> w])

\* del d[c]
Del(entries, c) ==
  [i \in 1..Len(entries) |-> IF entries[i].cid = c THEN Tomb ELSE entries[i]]

Keys(entries) == {entries[i].cid : i \in Live(entries)}

Sockets(entries) == {entries[i].ws : i \in Live(entries)}

\* list(d.keys()) without the holes, in order
RECURSIVE KeyList(_)
KeyList(entries) ==
  IF entries = <<>> THEN <<>>
  ELSE IF Head(entries) = Tomb THEN KeyList(Tail(entries))
  ELSE <<Head(entries).cid>> \o KeyList(Tail(entries))

\* A dict iterator: the place in the entry array, the size the dict had when the
\* iteration began, and the number of items still expected.  `stale`: the dict
\* it iterates was emptied and removed from active_rooms (a later room of the
\* same id is another object).
NoIter == [room |-> Absent, pos |-> 0, used |-> 0, len |-> 0, stale |-> FALSE]

NewIter(room_id, entries) ==
  [room |-> room_id, pos |-> 0, used |-> Size(entries), len |-> Size(entries),
   stale |-> FALSE]

\* next(iterator): an item, StopIteration, or RuntimeError.
DictNext(entries, it) ==
  LET rest == {i \in Live(entries) : i > it.pos} IN
  IF it.stale
    THEN [kind |-> IF it.used = 0 THEN "stop" ELSE "error", it |-> it, item |-> Tomb]
  ELSE IF it.used # Size(entries)
    THEN [kind |-> "error", it |-> it, item |-> Tomb]
  ELSE IF rest = {}
    THEN [kind |-> "stop", it |-> it, item |-> Tomb]
  ELSE IF it.len = 0
    THEN [kind |-> "error", it |-> it, item |-> Tomb]
  ELSE LET i == CHOOSE j \in rest : \A k \in rest : j <= k IN
       [kind |-> "item", it |-> [it EXCEPT !.pos = i, !.len = it.len - 1],
        item |-> entries[i]]

\* ---------------------------------------------------------------- messages
\* One shape for every outbound message.  client_id is the `client_id` of
\* user_joined, user_left and room_joined and the `from` of chat and signal.
\* `conn` is not sent: it names the connection whose join, leave, chat or signal
\* caused the message.
Msg(type, c, name, room_id, users, conn) ==
  [type |-> type, client_id |-> c, username |-> name, room_id |-> room_id,
   existing_users |-> users, conn |-> conn]

NoMsg == Msg("none", Absent, Absent, Absent, <<>>, Absent)

\* -------------------------------------------------------------------- state
NoLoc ==
  [room_id |-> Absent, username |-> Absent, ctx |-> "none", to |-> Absent,
   msg |-> NoMsg, exclude |-> Absent, it |-> NoIter, snap |-> {}, got |-> <<>>]

\* The client ids of the connections, up to the names of the ids: a connection
\* uses the id of an earlier connection or the first id not yet used.
ClientIds ==
  {f \in [Conns -> Clients] :
     \A w \in Conns : \A c \in 1..(f[w] - 1) : \E v \in 1..(w - 1) : f[v] = c}

Init ==
  /\ active_rooms = <<>>
  /\ client_info = <<>>
  /\ cid \in ClientIds
  /\ pc = [w \in Conns |-> "await_join"]
  /\ loc = [w \in Conns |-> NoLoc]
  /\ closed = [w \in Conns |-> FALSE]
  /\ nmsg = 0
  /\ heard = [w \in Conns |-> {}]

\* ------------------------------------------------------------- bookkeeping
SetKey(f, k, v) == (k :> v) @@ f

DelKey(f, k) == [x \in DOMAIN f \ {k} |-> f[x]]

\* The handler is over: it returned after disconnect ("closed"), returned
\* without it ("returned"), an exception left it from inside disconnect
\* ("crashed"), or its task was cancelled inside the try block ("cancelled").
Ended(p) == p \in {"closed", "returned", "crashed", "cancelled"}

\* A socket is closed when its handler ended (the server closes it) or when
\* its peer went away.  The peer may go away at any moment; the model fixes the
\* moment when the first send to the socket raises (SendFails), which is when it
\* first makes a difference.
CanSend(w) == ~closed[w]

\* The new state after the step of handler w.  An iterator of another task over
\* a room that this step removed from active_rooms now holds the only
\* reference to that (empty) dict.
Commit(w, rooms, info, newpc, newloc) ==
  LET gone == DOMAIN active_rooms \ DOMAIN rooms IN
  /\ active_rooms' = rooms
  /\ client_info' = info
  /\ pc' = [pc EXCEPT ![w] = newpc]
  /\ loc' = [v \in Conns |->
               IF v = w THEN newloc
               ELSE IF loc[v].it.room \in gone
                 THEN [loc[v] EXCEPT !.it.stale = TRUE]
                 ELSE loc[v]]
  /\ UNCHANGED cid

\* The sockets closed after the step of handler w: those that were, the
\* sockets `gone` whose peer was found gone, and w's own when the handler ended.
Closes(w, gone) ==
  closed' = [v \in Conns |-> closed[v] \/ v \in gone \/ (v = w /\ Ended(pc'[w]))]

\* What the peers of the connections that are inside the fan-out of their own
\* join have received after the step of handler w; `delivered`: the step is
\* the return of w's send of a user_joined to socket loc[w].to (line 100).
Hears(w, delivered) ==
  heard' = [j \in Conns |->
              IF pc'[j] = "send" /\ loc'[j].ctx = "join"
                THEN heard[j] \cup (IF delivered /\ j = loc[w].to THEN {w} ELSE {})
                ELSE {}]

\* ------------------------------------------------------- broadcast_to_room
\* Broadcast without the test `client_id != exclude_client_id`.
Broadcast_NoExclude(rooms, it, exclude) ==
  LET entries == IF it.room \in DOMAIN rooms THEN rooms[it.room] ELSE <<>>
      r == DictNext(entries, it)
  IN IF r.kind = "item"
       THEN [kind |-> "send", it |-> r.it, ws |-> r.item.ws]
       ELSE [kind |-> IF r.kind = "stop" THEN "done" ELSE "error",
             it |-> NoIter, ws |-> Absent]

\* The for loop of broadcast_to_room from the iterator `it` on: the next
\* recipient to await a send to ("send"), the end of the loop ("done"), or the
\* RuntimeError of a dict that changed during the iteration ("error").
RECURSIVE Broadcast(_, _, _)
Broadcast(rooms, it, exclude) ==
  LET entries == IF it.room \in DOMAIN rooms THEN rooms[it.room] ELSE <<>>
      r == DictNext(entries, it)
  IN IF r.kind = "item"
       THEN IF r.item.cid # exclude
              THEN [kind |-> "send", it |-> r.it, ws |-> r.item.ws]
              ELSE Broadcast(rooms, r.it, exclude)
       ELSE [kind |-> IF r.kind = "stop" THEN "done" ELSE "error",
             it |-> NoIter, ws |-> Absent]

\* broadcast_to_room up to its first send.
BroadcastStart(rooms, room_id, exclude) ==
  IF room_id \in DOMAIN rooms
    THEN Broadcast(rooms, NewIter(room_id, rooms[room_id]), exclude)
    ELSE [kind |-> "done", it |-> NoIter, ws |-> Absent]

\* The locals of a task suspended in the send of m to socket `to`.
Sending(l, ctx, to, m, exclude, it, snap, got) ==
  [l EXCEPT !.ctx = ctx, !.to = to, !.msg = m, !.exclude = exclude, !.it = it,
            !.snap = snap, !.got = got]

RoomSockets(rooms, room_id) ==
  IF room_id \in DOMAIN rooms THEN Sockets(rooms[room_id]) ELSE {}

\* --------------------------------------------------------------- disconnect
\* LeaveTail without `del self.active_rooms[room_id]`.
LeaveTail_KeepRoom(w, rooms, info, room_id) ==
  LET c == cid[w] IN
  IF room_id \notin DOMAIN rooms
    THEN Commit(w, rooms, info, "crashed", NoLoc)
    ELSE IF c \in DOMAIN info
           THEN Commit(w, rooms, DelKey(info, c), "closed", NoLoc)
           ELSE Commit(w, rooms, info, "crashed", NoLoc)

\* Lines 82-87 of disconnect, after the user_left fan-out.
LeaveTail(w, rooms, info, room_id) ==
  LET c == cid[w] IN
  IF room_id \notin DOMAIN rooms
    THEN Commit(w, rooms, info, "crashed", NoLoc)        \* KeyError, line 83
    ELSE LET rooms2 == IF Size(rooms[room_id]) = 0
                         THEN DelKey(rooms, room_id) ELSE rooms
         IN IF c \in DOMAIN info
              THEN Commit(w, rooms2, DelKey(info, c), "closed", NoLoc)
              ELSE Commit(w, rooms2, info, "crashed", NoLoc)  \* KeyError, line 87

\* disconnect(client_id) from its call to its first await, or to its end.
Disconnect(w, rooms, info) ==
  LET c == cid[w] IN
  IF c \notin DOMAIN info
    THEN Commit(w, rooms, info, "closed", NoLoc)
    ELSE
      LET room_id == info[c].room IN
      IF ~(room_id \in DOMAIN rooms /\ HasKey(rooms[room_id], c))
        THEN Commit(w, rooms, DelKey(info, c), "closed", NoLoc)
        ELSE
          LET rooms1 == [rooms EXCEPT ![room_id] = Del(@, c)]
              m == Msg("user_left", c, info[c].name, Absent, <<>>,
                       Get(rooms[room_id], c))
              b == BroadcastStart(rooms1, room_id, Absent)
          IN CASE b.kind = "send" ->
                    Commit(w, rooms1, info, "send",
                           Sending(NoLoc, "leave", b.ws, m, Absent, b.it,
                                   RoomSockets(rooms1, room_id), <<>>))
               [] b.kind = "done" -> LeaveTail(w, rooms1, info, room_id)
               [] OTHER -> Commit(w, rooms1, info, "crashed", NoLoc)

\* An exception inside the try block of websocket_endpoint: both except
\* clauses call disconnect(client_id).
Raise(w, rooms, info) == Disconnect(w, rooms, info)

\* ------------------------------------------------------------------ connect
\* Lines 48-64 of connect: existing_users, and the send of room_joined.
ConnectReply(w, room_id, rooms, info, snap, got) ==
  LET c == cid[w]
      mine == [NoLoc EXCEPT !.room_id = room_id]
  IN IF room_id \notin DOMAIN rooms
       THEN Raise(w, rooms, info)                              \* KeyError, line 49
       ELSE
         LET room_clients == SelectSeq(KeyList(rooms[room_id]), LAMBDA k : k # c) IN
         IF \E i \in 1..Len(room_clients) : room_clients[i] \notin DOMAIN info
           THEN Raise(w, rooms, info)                          \* KeyError, line 53
           ELSE
             LET existing_users ==
                   [i \in 1..Len(room_clients) |->
                      <<room_clients[i], info[room_clients[i]].name>>]
                 m == Msg("room_joined", c, Absent, room_id, existing_users, w)
             IN Commit(w, rooms, info, "send",
                       Sending(mine, "join_reply", w, m, Absent, NoIter, snap, got))

\* Lines 28-46 of connect: registration, and the user_joined fan-out up to its
\* first send.
Register(w, room_id, username) ==
  LET c == cid[w]
      mine == [NoLoc EXCEPT !.room_id = room_id, !.username = username]
      rooms1 == IF room_id \in DOMAIN active_rooms
                  THEN active_rooms ELSE SetKey(active_rooms, room_id, <<>>)
      rooms2 == [rooms1 EXCEPT ![room_id] = Put(@, c, w)]
      info2 == SetKey(client_info, c, [room |-> room_id, name |-> username])
      m == Msg("user_joined", c, username, Absent, <<>>, w)
      b == BroadcastStart(rooms2, room_id, c)
      snap == RoomSockets(rooms2, room_id) \ {w}
  IN CASE b.kind = "send" ->
            Commit(w, rooms2, info2, "send",
                   Sending(mine, "join", b.ws, m, c, b.it, snap, <<>>))
       [] b.kind = "done" ->
            ConnectReply(w, room_id, rooms2, info2, snap, <<>>)
       [] OTHER -> Raise(w, rooms2, info2)

\* ------------------------------------------------------- websocket_endpoint
\* The display name a connection sends in its join.  The code never compares
\* names; every connection sends its own, so that a name reported for the wrong
\* member shows.
UserName(w) == w

\* The first message is {"type": "join", ...}; room_id may be absent.  connect
\* awaits websocket.accept() before it touches the registry;
\* nothing the handler did before that await is visible to the other tasks, so
\* the receive, the accept and the registration are one step.
FirstJoin(w, r) ==
  /\ pc[w] = "await_join"
  /\ Register(w, IF r = Absent THEN DefaultRoom ELSE r, UserName(w))
  /\ UNCHANGED nmsg
  /\ Closes(w, {})
  /\ Hears(w, FALSE)

\* FirstOther that treats the message as a join.
FirstOther_Joins(w) == FirstJoin(w, Absent)

\* The first message has another type: the handler returns, and the server
\* closes the connection.
FirstOther(w) ==
  /\ pc[w] = "await_join"
  /\ pc' = [pc EXCEPT ![w] = "returned"]
  /\ closed' = [closed EXCEPT ![w] = TRUE]
  /\ UNCHANGED <<active_rooms, client_info, cid, loc, nmsg, heard>>

\* The first receive_json raises (the peer went away, the payload is no JSON),
\* the message has no "type" (KeyError), or the accept of connect raises.
FirstError(w) ==
  /\ pc[w] = "await_join"
  /\ Raise(w, active_rooms, client_info)
  /\ UNCHANGED nmsg
  /\ Closes(w, {})
  /\ Hears(w, FALSE)

\* A send_json raises: a send of the user_left fan-out is inside the except
\* clause and ends the handler, any other is inside the try block.
SendFails(w) ==
  /\ pc[w] = "send"
  /\ IF loc[w].ctx = "leave"
       THEN Commit(w, active_rooms, client_info, "crashed", NoLoc)
       ELSE Raise(w, active_rooms, client_info)
  /\ UNCHANGED nmsg
  /\ Closes(w, {loc[w].to})
  /\ Hears(w, FALSE)

\* The task of the handler is cancelled at the await it is suspended in (the
\* server shuts down, or cancels the task of a connection it lost).
\* CancelledError is a BaseException: neither `except WebSocketDisconnect` nor
\* `except Exception` catches it, so it leaves the handler without a call of
\* disconnect; inside disconnect it ends the user_left fan-out.  At the first
\* receive the outcome is that of FirstOther.
Cancel(w) ==
  /\ pc[w] \in {"recv", "send"}
  /\ Commit(w, active_rooms, client_info,
            IF pc[w] = "send" /\ loc[w].ctx = "leave" THEN "crashed" ELSE "cancelled",
            NoLoc)
  /\ UNCHANGED nmsg
  /\ Closes(w, {})
  /\ Hears(w, FALSE)

\* The send_json the task is suspended in returns: the peer of socket
\* loc[w].to has received loc[w].msg.
Sent(w) ==
  /\ pc[w] = "send"
  /\ CanSend(loc[w].to)
  /\ UNCHANGED nmsg

\* The task's locals at the next send of the fan-out it is in.
NextSend(w, b) ==
  [loc[w] EXCEPT !.to = b.ws, !.it = b.it, !.got = Append(@, loc[w].to)]

\* A user_joined was sent: the fan-out of connect goes on.
JoinNotify(w) ==
  /\ loc[w].ctx = "join"
  /\ Sent(w)
  /\ LET b == Broadcast(active_rooms, loc[w].it, loc[w].exclude) IN
     CASE b.kind = "send" ->
            Commit(w, active_rooms, client_info, "send", NextSend(w, b))
       [] b.kind = "done" ->
            ConnectReply(w, loc[w].room_id, active_rooms, client_info, loc[w].snap,
                         Append(loc[w].got, loc[w].to))
       [] OTHER -> Raise(w, active_rooms, client_info)
  /\ Closes(w, {})
  /\ Hears(w, TRUE)

\* The room_joined was sent: connect returns, the session is Active.
JoinReply(w) ==
  /\ loc[w].ctx = "join_reply"
  /\ Sent(w)
  /\ Commit(w, active_rooms, client_info, "recv", NoLoc)
  /\ Closes(w, {})
  /\ Hears(w, FALSE)

\* A user_left was sent: the fan-out of disconnect goes on.
LeaveNotify(w) ==
  /\ loc[w].ctx = "leave"
  /\ Sent(w)
  /\ LET b == Broadcast(active_rooms, loc[w].it, Absent) IN
     CASE b.kind = "send" ->
            Commit(w, active_rooms, client_info, "send", NextSend(w, b))
       [] b.kind = "done" ->
            LeaveTail(w, active_rooms, client_info, loc[w].it.room)
       [] OTHER -> Commit(w, active_rooms, client_info, "crashed", NoLoc)
  /\ Closes(w, {})
  /\ Hears(w, FALSE)

\* receive_json returns a message in the Active loop.
Receives(w) ==
  /\ pc[w] = "recv"
  /\ ~closed[w]
  /\ nmsg < MaxMsgs
  /\ nmsg' = nmsg + 1

\* relay_message and send_to_client up to the send: the socket to send to, or
\* Absent when one of the checks fails.
RelayTarget(rooms, info, from_client_id, to_client_id) ==
  IF /\ to_client_id \in DOMAIN info
     /\ from_client_id \in DOMAIN info
     /\ info[from_client_id].room = info[to_client_id].room
     /\ info[to_client_id].room \in DOMAIN rooms
     /\ HasKey(rooms[info[to_client_id].room], to_client_id)
    THEN Get(rooms[info[to_client_id].room], to_client_id)
    ELSE Absent

\* {"type": "signal", "to": t, ...}; t is Absent when the field is missing.
RecvSignal(w, t) ==
  /\ Receives(w)
  /\ LET target == IF t = Absent THEN Absent
                   ELSE RelayTarget(active_rooms, client_info, cid[w], t)
         m == Msg("signal", cid[w], Absent, Absent, <<>>, w)
     IN IF target = Absent
          THEN Commit(w, active_rooms, client_info, "recv", NoLoc)
          ELSE Commit(w, active_rooms, client_info, "send",
                      Sending(NoLoc, "relay", target, m, Absent, NoIter, {}, <<>>))
  /\ Closes(w, {})
  /\ Hears(w, FALSE)

\* {"type": "chat", ...}
RecvChat(w) ==
  /\ Receives(w)
  /\ LET c == cid[w] IN
     IF c \notin DOMAIN client_info
       THEN Raise(w, active_rooms, client_info)          \* KeyError, line 159
       ELSE
         LET room_id == client_info[c].room
             m == Msg("chat", c, client_info[c].name, Absent, <<>>, w)
             b == BroadcastStart(active_rooms, room_id, Absent)
         IN CASE b.kind = "send" ->
                   Commit(w, active_rooms, client_info, "send",
                          Sending(NoLoc, "chat", b.ws, m, Absent, b.it,
                                  RoomSockets(active_rooms, room_id), <<>>))
              [] b.kind = "done" ->
                   Commit(w, active_rooms, client_info, "recv", NoLoc)
              [] OTHER -> Raise(w, active_rooms, client_info)
  /\ Closes(w, {})
  /\ Hears(w, FALSE)

\* RecvPing that treats the ping as a chat.
RecvPing_AsChat(w) == RecvChat(w)

\* {"type": "ping"}
RecvPing(w) ==
  /\ Receives(w)
  /\ Commit(w, active_rooms, client_info, "send",
            Sending(NoLoc, "pong", w, Msg("pong", Absent, Absent, Absent, <<>>, w),
                    Absent, NoIter, {}, <<>>))
  /\ Closes(w, {})
  /\ Hears(w, FALSE)

\* Any other type, a second join included, or no type: ignored.
RecvOther(w) ==
  /\ Receives(w)
  /\ Commit(w, active_rooms, client_info, "recv", NoLoc)
  /\ Closes(w, {})
  /\ Hears(w, FALSE)

\* receive_json raises: WebSocketDisconnect when the peer went away, another
\* exception on a payload that is no JSON object.  Both except clauses call
\* disconnect.
RecvError(w) ==
  /\ pc[w] = "recv"
  /\ Raise(w, active_rooms, client_info)
  /\ UNCHANGED nmsg
  /\ Closes(w, {})
  /\ Hears(w, FALSE)

\* A chat was sent to one member: the fan-out goes on.
ChatSend(w) ==
  /\ loc[w].ctx = "chat"
  /\ Sent(w)
  /\ LET b == Broadcast(active_rooms, loc[w].it, Absent) IN
     CASE b.kind = "send" ->
            Commit(w, active_rooms, client_info, "send", NextSend(w, b))
       [] b.kind = "done" ->
            Commit(w, active_rooms, client_info, "recv", NoLoc)
       [] OTHER -> Raise(w, active_rooms, client_info)
  /\ Closes(w, {})
  /\ Hears(w, FALSE)

\* The signal was sent to its target.
RelaySend(w) ==
  /\ loc[w].ctx = "relay"
  /\ Sent(w)
  /\ Commit(w, active_rooms, client_info, "recv", NoLoc)
  /\ Closes(w, {})
  /\ Hears(w, FALSE)

\* The pong was sent.
Pong(w) ==
  /\ loc[w].ctx = "pong"
  /\ Sent(w)
  /\ Commit(w, active_rooms, client_info, "recv", NoLoc)
  /\ Closes(w, {})
  /\ Hears(w, FALSE)

Next ==
  \E w \in Conns :
    \/ \E r \in Rooms \cup {Absent} : FirstJoin(w, r)
    \/ FirstOther(w)
    \/ FirstError(w)
    \/ SendFails(w)
    \/ Cancel(w)
    \/ JoinNotify(w)
    \/ JoinReply(w)
    \/ LeaveNotify(w)
    \/ \E t \in Clients \cup {Absent} : RecvSignal(w, t)
    \/ RecvChat(w)
    \/ RecvPing(w)
    \/ RecvOther(w)
    \/ RecvError(w)
    \/ ChatSend(w)
    \/ RelaySend(w)
    \/ Pong(w)

Spec == Init /\ [][Next]_vars

\* --------------------------------------------------------------- sanity
TypeOK ==
  /\ DOMAIN active_rooms \subseteq Rooms
  /\ DOMAIN client_info \subseteq Clients
  /\ \A w \in Conns :
       /\ pc[w] \in {"await_join", "send", "recv", "closed", "returned", "crashed",
                    "cancelled"}
       /\ pc[w] = "send" <=> loc[w].ctx # "none"
       /\ pc[w] = "send" => loc[w].to \in Conns
       /\ (loc[w].it.room # Absent /\ ~loc[w].it.stale)
             => loc[w].it.room \in DOMAIN active_rooms

\* list_rooms (GET /api/rooms) reads the registry and changes nothing: it
\* returns the listing, or raises KeyError at line 191 when a listed member has
\* no record in client_info.
list_rooms ==
  IF \A r \in DOMAIN active_rooms : Keys(active_rooms[r]) \subseteq DOMAIN client_info
    THEN [error |-> "none",
          rooms_info |->
            [r \in DOMAIN active_rooms |->
               [user_count |-> Size(active_rooms[r]),
                users |-> {<<c, client_info[c].name>> : c \in Keys(active_rooms[r])}]]]
    ELSE [error |-> "KeyError", rooms_info |-> <<>>]

\* ------------------------------------------------------------------ claims
\* C1: every room id that is a key of active_rooms maps to a non-empty member
\* set, in every reachable state.
C1_NoEmptyRoom ==
  \A r \in DOMAIN active_rooms : Size(active_rooms[r]) > 0

\* C1 witness: a connection was Active (it sent a message), every handler has
\* ended, and the rooms are gone with their last members.
C1_Witness ==
  /\ nmsg > 0
  /\ \A w \in Conns : pc[w] = "closed"
  /\ DOMAIN active_rooms = {}

\* C2: a client id is a key of the member set of at most one room.
C2_OneRoom ==
  \A c \in Clients :
    Cardinality({r \in DOMAIN active_rooms : HasKey(active_rooms[r], c)}) <= 1

\* C3: every client id in the member set of a room R has a record in
\* client_info whose room is R, and list_rooms can name every listed member.
C3_MemberHasRecord ==
  /\ \A r \in DOMAIN active_rooms : \A c \in Keys(active_rooms[r]) :
        c \in DOMAIN client_info /\ client_info[c].room = r
  /\ list_rooms.error = "none"

\* The client ids are one per connection.
UniqueIds == \A v, w \in Conns : cid[v] = cid[w] => v = w

\* The registry is consistent as long as no two connections use one client id.
ConsistentWhenUnique == UniqueIds => C3_MemberHasRecord /\ C2_OneRoom

Range(q) == {q[i] : i \in 1..Len(q)}

\* The socket w is the registered connection of its client id in room r.
MemberOf(rooms, r, w) ==
  r \in DOMAIN rooms /\ HasKey(rooms[r], cid[w]) /\ Get(rooms[r], cid[w]) = w

\* C4: a signal from connection w to client id t is sent to t's connection,
\* with from = w's id, if and only if both are registered and members of one
\* room; otherwise nothing is sent and w stays Active.  The target is a member
\* of a room w is a member of.
C4_RelaySameRoom ==
  [][\A w \in Conns, t \in Clients : RecvSignal(w, t) =>
       LET shared == {r \in DOMAIN active_rooms :
                        HasKey(active_rooms[r], cid[w]) /\ HasKey(active_rooms[r], t)}
           registered == cid[w] \in DOMAIN client_info /\ t \in DOMAIN client_info
           sends == pc'[w] = "send" /\ loc'[w].ctx = "relay"
       IN /\ sends <=> (registered /\ shared # {})
          /\ sends => /\ loc'[w].msg.type = "signal"
                      /\ loc'[w].msg.client_id = cid[w]
                      /\ \E r \in shared : loc'[w].to = Get(active_rooms[r], t)
          /\ ~sends => pc'[w] = "recv"
          /\ active_rooms' = active_rooms /\ client_info' = client_info]_vars

\* The chat fan-out of w ends in this step.
ChatEnds(w) ==
  /\ ChatSend(w) \/ (SendFails(w) /\ loc[w].ctx = "chat")
  /\ ~(pc'[w] = "send" /\ loc'[w].ctx = "chat")

\* The socket v can still take a message while w's fan-out runs: it is some
\* room's registered connection, its peer is there, and it is not the one
\* the failed send of this step was for.
CanTake(w, v) ==
  /\ ~closed[v]
  /\ \E r \in DOMAIN active_rooms : MemberOf(active_rooms, r, v)
  /\ ChatSend(w) \/ v # loc[w].to

\* C5: the connections that receive a chat are exactly the members of the
\* sender's room when the broadcast began (those that can still take a
\* message), the sender among them, and no one else.
C5_ChatReachesRoom ==
  [][\A w \in Conns : ChatEnds(w) =>
       LET receivers == Range(loc[w].got) \cup (IF ChatSend(w) THEN {loc[w].to} ELSE {})
       IN /\ receivers \subseteq loc[w].snap
          /\ \A v \in loc[w].snap \cup {w} : CanTake(w, v) => v \in receivers]_vars

\* connect has computed existing_users and is about to send room_joined.
EntersReply(w) ==
  /\ pc'[w] = "send" /\ loc'[w].ctx = "join_reply"
  /\ ~(pc[w] = "send" /\ loc[w].ctx = "join_reply")

Count(q, x) == Cardinality({i \in 1..Len(q) : q[i] = x})

CallsDisconnect(w) ==
  /\ FirstError(w) \/ RecvError(w) \/ (pc[w] = "send" /\ loc[w].ctx # "leave")
  /\ pc'[w] \in {"closed", "crashed"} \/ (pc'[w] = "send" /\ loc'[w].ctx = "leave")

\* The client id is in no room and no disconnect of it is running: it never
\* joined, or an earlier disconnect of it has ended.
HasLeft(c) ==
  /\ \A r \in DOMAIN active_rooms : ~HasKey(active_rooms[r], c)
  /\ \A v \in Conns : cid[v] = c => ~(pc[v] = "send" /\ loc[v].ctx = "leave")

\* C7: disconnect(c) for an id that never joined, or again after an earlier
\* disconnect(c), raises nothing, changes neither active_rooms nor
\* client_info and sends no user_left; and no user_left fan-out sends to one
\* socket twice.
C7_LeaveIdempotent ==
  /\ [][\A w \in Conns : (CallsDisconnect(w) /\ HasLeft(cid[w])) =>
          /\ pc'[w] = "closed"
          /\ active_rooms' = active_rooms
          /\ client_info' = client_info]_vars
  /\ [](\A w \in Conns : (pc[w] = "send" /\ loc[w].ctx = "leave") =>
          Count(Append(loc[w].got, loc[w].to), loc[w].to) = 1)

\* C8: a failed send inside a fan-out does not end it: the task goes on to the
\* next member of the room, if there is one.
C8_FanOutContinues ==
  [][\A w \in Conns :
       (SendFails(w) /\ loc[w].ctx \in {"join", "leave", "chat"}) =>
         LET b == Broadcast(active_rooms, loc[w].it, loc[w].exclude) IN
         b.kind = "send" =>
           pc'[w] = "send" /\ loc'[w].ctx = loc[w].ctx /\ loc'[w].to = b.ws]_vars

\* C9: a send to another connection that fails during w's chat broadcast (or
\* relay) leaves w Active and registered, and unregisters no one.
C9_FailureNotPropagated ==
  [][\A w \in Conns :
       (SendFails(w) /\ loc[w].ctx \in {"chat", "relay"} /\ loc[w].to # w) =>
         /\ pc'[w] \in {"send", "recv"}
         /\ loc'[w].ctx # "leave"
         /\ active_rooms' = active_rooms
         /\ client_info' = client_info]_vars

\* C10: a failed send of user_joined to a member does not fail the join: the
\* joiner stays registered and goes on towards its room_joined.
C10_JoinSurvivesFailedNotify ==
  [][\A w \in Conns :
       (SendFails(w) /\ loc[w].ctx = "join") =>
         /\ pc'[w] = "send"
         /\ loc'[w].ctx \in {"join", "join_reply"}
         /\ MemberOf(active_rooms', loc[w].room_id, w)
         /\ cid[w] \in DOMAIN client_info']_vars

\* Handler w is inside disconnect (suspended in its user_left fan-out).
Leaving(p, l) == p = "send" /\ l.ctx = "leave"

\* A disconnect of a registered client id ends in this step: one that was
\* suspended in its fan-out, or one that is called and needs no send.
LeaveEnds(w) ==
  /\ \/ Leaving(pc[w], loc[w])
     \/ CallsDisconnect(w) /\ cid[w] \in DOMAIN client_info
  /\ pc'[w] # "send"

\* C11: a disconnect(c) of a registered id never raises, and when it ends c has
\* no record in client_info, c is a member of no room and no empty room is
\* left, also when a user_left send failed or the room changed meanwhile.
C11_LeaveNeverFails ==
  [][\A w \in Conns : LeaveEnds(w) =>
       /\ pc'[w] = "closed"
       /\ cid[w] \notin DOMAIN client_info'
       /\ \A r \in DOMAIN active_rooms' :
            Size(active_rooms'[r]) > 0 /\ ~HasKey(active_rooms'[r], cid[w])]_vars

\* The session of w is Active: connect returned and the handler is in its loop.
Active(p, l) == p = "recv" \/ (p = "send" /\ l.ctx \in {"chat", "relay", "pong"})

\* disconnect has been called by the handler (and is running, has returned or
\* has raised).
Disconnected(p, l) == p \in {"closed", "crashed"} \/ Leaving(p, l)

\* C12: whenever an Active session ends, the handler calls disconnect; once it
\* has called it, it never calls it again (the handler ends with that call).
C12_LeaveExactlyOnce ==
  [][\A w \in Conns :
       /\ (Active(pc[w], loc[w]) /\ ~Active(pc'[w], loc'[w]))
             => Disconnected(pc'[w], loc'[w])
       /\ Disconnected(pc[w], loc[w]) => Disconnected(pc'[w], loc'[w])
       /\ Ended(pc[w]) => pc'[w] = pc[w]]_vars

\* The socket w is a value of some room's dict.
InRooms(rooms, w) == \E r \in DOMAIN rooms : w \in Sockets(rooms[r])

\* C13: a connection whose first message is no join, or whose first receive
\* fails, is not registered by that step and its session is over; a socket is
\* put into a room only by the handler that is at its first message, and no
\* handler returns to its first message.
C13_NoJoinNoRegistration ==
  [][\A w \in Conns :
       /\ (FirstOther(w) \/ FirstError(w)) =>
            /\ ~InRooms(active_rooms', w)
            /\ Ended(pc'[w]) \/ Leaving(pc'[w], loc'[w])
       /\ (InRooms(active_rooms', w) /\ ~InRooms(active_rooms, w))
            => pc[w] = "await_join"
       /\ pc'[w] = "await_join" => pc[w] = "await_join"]_vars

\* C13 witness: a handler returned at a first message that was no join while
\* another connection is registered, and its socket is in no room.
C13_Witness ==
  \E w \in Conns, v \in Conns :
    /\ pc[w] = "returned" /\ ~InRooms(active_rooms, w)
    /\ v # w /\ pc[v] = "recv" /\ InRooms(active_rooms, v)

\* Handler v is suspended at a send inside an iteration over room r's dict:
\* the fan-out of a join, a leave or a chat.
Iterating(v, r) == pc[v] = "send" /\ loc[v].it.room = r /\ ~loc[v].it.stale

\* Handler v takes no part in this step.
Waits(v) == pc'[v] = pc[v] /\ [loc'[v] EXCEPT !.it.stale = FALSE] = loc[v]

\* C14: while a join, a leave or a broadcast is suspended at a send inside its
\* iteration over room r, no step of another handler changes r's member set.
C14_RoomExclusive ==
  [][\A v \in Conns, r \in Rooms :
       (Iterating(v, r) /\ Waits(v)) =>
         r \in DOMAIN active_rooms' /\ active_rooms'[r] = active_rooms[r]]_vars

\* C16: in the Active loop a message of unknown type and a signal without
\* `to` change nothing and send nothing; a ping changes nothing and sends one
\* pong, to the sender's own socket, after which the loop goes on.
C16_NoEffectFrames ==
  [][\A w \in Conns :
       /\ (RecvOther(w) \/ RecvSignal(w, Absent)) =>
            /\ pc'[w] = "recv"
            /\ active_rooms' = active_rooms /\ client_info' = client_info
       /\ RecvPing(w) =>
            /\ pc'[w] = "send" /\ loc'[w].ctx = "pong"
            /\ loc'[w].to = w /\ loc'[w].msg.type = "pong"
            /\ active_rooms' = active_rooms /\ client_info' = client_info
       /\ Pong(w) =>
            /\ pc'[w] = "recv"
            /\ active_rooms' = active_rooms /\ client_info' = client_info]_vars

\* C16 witness: a pong is about to be sent to a member of a room that has
\* another member.
C16_Witness ==
  \E w \in Conns, v \in Conns, r \in DOMAIN active_rooms :
    /\ pc[w] = "send" /\ loc[w].ctx = "pong" /\ loc[w].to = w
    /\ v # w /\ {v, w} \subseteq Sockets(active_rooms[r])

\* C17: a session that ends at its first message (no join, or a failed
\* receive) leaves active_rooms and client_info as they were and starts no
\* user_left fan-out.
C17_AwaitingJoinNoEffect ==
  [][\A w \in Conns :
       (FirstOther(w) \/ FirstError(w)) =>
         /\ active_rooms' = active_rooms
         /\ client_info' = client_info
         /\ pc'[w] # "send"]_vars

\* Handler v's send of a user_joined, user_left, chat or signal to socket j
\* returns in this step.
Delivers(v, j) ==
  /\ loc[v].to = j
  /\ JoinNotify(v) \/ LeaveNotify(v) \/ ChatSend(v) \/ RelaySend(v)

\* connect has registered j and has not yet begun to send its room_joined: it
\* is suspended in the user_joined fan-out.
Joining(j) == pc[j] = "send" /\ loc[j].ctx = "join"

\* C19: no user_joined, user_left, chat or signal is delivered to a connection
\* that has not yet received its own room_joined.
C19_RoomJoinedFirst ==
  [][\A v \in Conns, j \in Conns :
       (Delivers(v, j) /\ v # j) => ~Joining(j)]_vars

\* C20: a record of client_info whose id is in no disconnect names a room that
\* has the id as a member, and a handler that is over has left no record of
\* its own behind.
C20_NoOrphanRecord ==
  /\ \A c \in DOMAIN client_info :
       (\A v \in Conns : cid[v] = c => ~Leaving(pc[v], loc[v])) =>
         /\ client_info[c].room \in DOMAIN active_rooms
         /\ HasKey(active_rooms[client_info[c].room], c)
  /\ \A w \in Conns :
       Ended(pc[w]) =>
         ~(cid[w] \in DOMAIN client_info /\ client_info[cid[w]].name = UserName(w))

\* Nothing of w's registration is left: its socket is in no room and
\* client_info holds no record written by its join.
Unregistered(w) ==
  /\ ~InRooms(active_rooms, w)
  /\ ~(cid[w] \in DOMAIN client_info /\ client_info[cid[w]].name = UserName(w))

\* C15: a handler that is over after its connection closed (every await of
\* the handler returns or raises, so it is over eventually) has been removed
\* from its room and from client_info; the user_left of a leave that completes
\* has gone to every socket that was left in the room, with the id and the
\* name of the leaver, and not to the leaver.
C15_EventuallyLeft ==
  /\ [](\A w \in Conns : pc[w] \in {"closed", "crashed"} => Unregistered(w))
  /\ [][\A w \in Conns :
          (LeaveNotify(w) /\ pc'[w] = "closed" /\ loc[w].msg.conn = w) =>
            /\ loc[w].msg.client_id = cid[w] /\ loc[w].msg.username = UserName(w)
            /\ Range(loc[w].got) \cup {loc[w].to} = loc[w].snap
            /\ w \notin loc[w].snap]_vars

\* The sockets of the members listed in the existing_users that handler j has
\* just computed.
Listed(j) ==
  LET users == loc'[j].msg.existing_users
      room == active_rooms'[loc'[j].room_id]
  IN {Get(room, users[i][1]) : i \in 1..Len(users)}

\* C18: the existing_users of j's room_joined lists no member whose
\* user_joined j has received, and only members that were in the room when j
\* was inserted.
C18_ToldOnce ==
  [][\A j \in Conns : EntersReply(j) =>
       /\ Listed(j) \cap heard[j] = {}
       /\ Listed(j) \subseteq loc'[j].snap]_vars
====
